---- MODULE Spec2Model ----
(***************************************************************************)
(* Model of app.py, the CIFR options portfolio monitor: the quote and      *)
(* option-chain fetchers, the per-position calculation, the portfolio      *)
(* totals and the time-based cache of gather_data, and the /api handler    *)
(* that serves it.                                                         *)
(*                                                                         *)
(* Conventions.                                                            *)
(*  - A Python value that may be None is a sequence of length 0 or 1:      *)
(*    None is <<>>, a present value x is <<x>>.                            *)
(*  - Prices and money are integers in mills (1/1000 dollar).  The strings *)
(*    float() is applied to are prices in whole cents, so that (bid+ask)/2 *)
(*    is an exact number of mills.                                         *)
(*  - A ratio n/d (pnl_pct, total_pnl_pct) is the pair <<n, d>>.           *)
(*  - A date string "YYYY-MM-DD" is the triple <<Y, M, D>>; a date is its  *)
(*    day number since 1970-01-01; the local time zone is UTC.             *)
(*  - time.time() and datetime.now() read the variable clock (seconds).    *)
(***************************************************************************)
EXTENDS Integers, Sequences, FiniteSets, TLC

\* ------------------------------------------------------------------ bounds

\* Number of times the clock advances in a behaviour.
MaxTicks == 1

\* Number of requests served in a behaviour.
MaxRequests == 2

\* ------------------------------------------------------- program constants

CACHE_TTL == 120

TOTAL_COST_BASIS == 252425

SecondsPerDay == 86400

None == <<>>

Some(x) == <<x>>

\* Python truthiness of an optional number: None and 0.0 are falsy.
Truthy(o) == o # None /\ o[1] # 0

Max(a, b) == IF a >= b THEN a ELSE b

POSITIONS ==
    << [label |-> "Nov 20 '26 $13 Call", strike |-> "13.00", strike_num |-> 13,
        expiry |-> <<2026, 11, 20>>, contracts |-> 220, cost_per |-> 5007,
        fromdate |-> <<2026, 11, 20>>, todate |-> <<2026, 11, 20>>],
       [label |-> "Jun 18 '26 $15 Call", strike |-> "15.00", strike_num |-> 15,
        expiry |-> <<2026, 6, 18>>, contracts |-> 105, cost_per |-> 5054,
        fromdate |-> <<2026, 6, 18>>, todate |-> <<2026, 6, 18>>],
       [label |-> "Oct 16 '26 $16 Call", strike |-> "16.00", strike_num |-> 16,
        expiry |-> <<2026, 10, 16>>, contracts |-> 134, cost_per |-> 6658,
        fromdate |-> <<2026, 10, 16>>, todate |-> <<2026, 10, 16>>] >>

NPos == Len(POSITIONS)

\* ---------------------------------------------------------- pure functions

\* float(s) on the strings of the model: <<mills>>, or <<>> for ValueError.
float(s) ==
    CASE s = "0.00" -> Some(0)
      [] s = "0.10" -> Some(100)
      [] s = "4.50" -> Some(4500)
      [] s = "4.70" -> Some(4700)
      [] s = "14.20" -> Some(14200)
      [] OTHER -> None

\* parse_val(v): v is None or a string.
parse_val(v) ==
    IF v = None \/ v = Some("--") \/ v = Some("")
    THEN None
    ELSE float(v[1])

\* datetime.strptime(date_str, "%Y-%m-%d").date() as a day number.
strptime_date(date_str) ==
    LET y0  == date_str[1]
        m   == date_str[2]
        dd  == date_str[3]
        y   == IF m <= 2 THEN y0 - 1 ELSE y0
        era == y \div 400
        yoe == y - era * 400
        mp  == IF m > 2 THEN m - 3 ELSE m + 9
        doy == (153 * mp + 2) \div 5 + dd - 1
        doe == yoe * 365 + yoe \div 4 - yoe \div 100 + doy
    IN  era * 146097 + doe - 719468

\* date.today() when the clock reads t.
date_today(t) == t \div SecondsPerDay

days_until_rev(date_str, t) == date_today(t) - strptime_date(date_str)

days_until(date_str, t) == strptime_date(date_str) - date_today(t)

\* datetime.now().strftime("%b %d, %Y %I:%M:%S %p ET"): the date and the
\* time of day to the second.
strftime_now(t) == <<t \div SecondsPerDay, t % SecondsPerDay>>

\* ---------------------------------------------------------------- fetchers

\* An HTTP exchange with the quote source: ok = FALSE when urlopen raises;
\* attr is the text of the data-last-price attribute, None when the body has
\* no such attribute.
QuoteResponses ==
    { [ok |-> FALSE, attr |-> None],
      [ok |-> TRUE,  attr |-> None],
      [ok |-> TRUE,  attr |-> Some("14.20")],
      [ok |-> TRUE,  attr |-> Some("N/A")] }

Raise == [raised |-> TRUE, value |-> None]

Return(v) == [raised |-> FALSE, value |-> v]

\* Mutant: a transport error is swallowed and reported as "no price".
fetch_stock_price_swallow(r) ==
    IF ~r.ok THEN Return(None)
    ELSE IF r.attr = None THEN Return(None)
    ELSE IF float(r.attr[1]) = None THEN Raise
    ELSE Return(float(r.attr[1]))

\* fetch_stock_price(): the value returned, or the exception raised.
fetch_stock_price(r) ==
    IF ~r.ok THEN Raise
    ELSE IF r.attr = None THEN Return(None)
    ELSE IF float(r.attr[1]) = None THEN Raise
    ELSE Return(float(r.attr[1]))

\* A row of the option chain.
Row(strike, bid, ask, last) ==
    [strike |-> strike, c_Bid |-> bid, c_Ask |-> ask, c_Last |-> last,
     c_Volume |-> Some("12"), c_Openinterest |-> Some("345")]

OtherStrike == "99.00"

\* An HTTP exchange with the option-chain source for one position: ok = FALSE
\* when fetch_json raises, else the rows of data.table.rows.
ChainResponses(pos) ==
    { [ok |-> FALSE, rows |-> <<>>],
      [ok |-> TRUE,  rows |-> <<Row(OtherStrike, Some("4.50"), Some("4.70"), Some("4.50"))>>],
      [ok |-> TRUE,  rows |-> <<Row(OtherStrike, Some("0.10"), Some("0.10"), Some("0.10")),
                                Row(pos.strike, Some("4.50"), Some("4.70"), Some("4.50")),
                                Row(pos.strike, Some("0.10"), Some("0.10"), Some("0.10"))>>] }

\* fetch_option(fromdate, todate, strike): the first row of that strike.
fetch_option(r, strike) ==
    IF ~r.ok THEN Raise
    ELSE LET hits == {i \in 1..Len(r.rows) : r.rows[i].strike = strike}
         IN  IF hits = {} THEN Return(None)
             ELSE Return(Some(r.rows[CHOOSE i \in hits : \A j \in hits : i <= j]))

Absent == [bid |-> None, ask |-> None, last |-> None,
           vol |-> Some("--"), oi |-> Some("--")]

\* Mutant: a position without data is priced at zero instead of left absent.
option_fields_zero(f) ==
    IF f.raised \/ f.value = None
    THEN [bid |-> Some(0), ask |-> Some(0), last |-> Some(0),
          vol |-> Some("--"), oi |-> Some("--")]
    ELSE LET match == f.value[1]
         IN  [bid  |-> parse_val(match.c_Bid),
              ask  |-> parse_val(match.c_Ask),
              last |-> parse_val(match.c_Last),
              vol  |-> match.c_Volume,
              oi   |-> match.c_Openinterest]

\* The try/except of the loop body: the market fields of one position.
option_fields(f) ==
    IF f.raised THEN Absent
    ELSE IF f.value = None THEN Absent
    ELSE LET match == f.value[1]
         IN  [bid  |-> parse_val(match.c_Bid),
              ask  |-> parse_val(match.c_Ask),
              last |-> parse_val(match.c_Last),
              vol  |-> match.c_Volume,
              oi   |-> match.c_Openinterest]

\* -------------------------------------------------------------- calculator

mid_of(bid, ask, last) ==
    IF Truthy(bid) /\ Truthy(ask) THEN Some((bid[1] + ask[1]) \div 2) ELSE last

\* The rest of the loop body: the result appended for one position, computed
\* when the clock reads t.
position_result(pos, f, stock_price, t) ==
    LET mid        == mid_of(f.bid, f.ask, f.last)
        cost_basis == pos.contracts * pos.cost_per * 100
        value      == IF Truthy(mid) THEN Some(pos.contracts * mid[1] * 100) ELSE None
        pnl        == IF Truthy(value) THEN Some(value[1] - cost_basis) ELSE None
        pnl_pct    == IF pnl # None THEN Some(<<pnl[1], cost_basis>>) ELSE None
        dte        == days_until(pos.expiry, t)
        intrinsic  == IF Truthy(stock_price)
                      THEN Some(Max(0, stock_price[1] - pos.strike_num * 1000))
                      ELSE None
        time_val   == IF Truthy(mid) /\ intrinsic # None
                      THEN Some(Max(0, mid[1] - intrinsic[1]))
                      ELSE None
    IN  pos @@ [bid |-> f.bid, ask |-> f.ask, last |-> f.last, mid |-> mid,
                vol |-> f.vol, oi |-> f.oi, cost_basis |-> cost_basis,
                value |-> value, pnl |-> pnl, pnl_pct |-> pnl_pct, dte |-> dte,
                intrinsic |-> intrinsic, time_val |-> time_val]

RECURSIVE total_value_skip(_)
\* Mutant: the sum starts at the second result.
total_value_skip(results) ==
    IF Len(results) <= 1 THEN 0
    ELSE (IF Truthy(results[Len(results)].value) THEN results[Len(results)].value[1] ELSE 0)
         + total_value_skip(SubSeq(results, 1, Len(results) - 1))

RECURSIVE total_value(_)
\* sum(r["value"] for r in results if r["value"])
total_value(results) ==
    IF results = <<>> THEN 0
    ELSE (IF Truthy(Head(results).value) THEN Head(results).value[1] ELSE 0)
         + total_value(Tail(results))

\* The dict d built after the loop, when the clock reads t.
aggregate(stock_price, results, t) ==
    LET tv == total_value(results)
        tp == tv - TOTAL_COST_BASIS * 1000
    IN  [stock_price   |-> stock_price,
         positions     |-> results,
         total_value   |-> tv,
         total_pnl     |-> tp,
         total_pnl_pct |-> <<tp, TOTAL_COST_BASIS * 1000>>,
         timestamp     |-> strftime_now(t)]

\* Mutant: the entry expires one second early.
IsFreshEarly(c, now) == c.data # None /\ (now - c.time) < CACHE_TTL - 1

\* Mutant: an entry of age CACHE_TTL still counts as fresh.
IsFreshLate(c, now) == c.data # None /\ (now - c.time) <= CACHE_TTL

\* The test of the cache on entry to gather_data.
IsFresh(c, now) == c.data # None /\ (now - c.time) < CACHE_TTL

\* ------------------------------------------------------------------- state

VARIABLES
    clock,      \* what time.time() and datetime.now() read, in seconds
    ticks,      \* how many times the clock has advanced
    requests,   \* how many requests have arrived
    cache,      \* _cache: [data, time]
    proc,       \* per serving thread: the request it is serving
    calc        \* the calculator applied to one input on its own

vars == <<clock, ticks, requests, cache, proc, calc>>

Procs == {1, 2}

\* The process starts half a TTL before a local midnight.
BootDate == <<2026, 10, 16>>

StartTime == (strptime_date(BootDate) + 1) * SecondsPerDay - CACHE_TTL \div 2

\* How far the clock may advance between two steps.
Deltas == {CACHE_TTL - 1, CACHE_TTL}

\* A thread that serves nothing: the locals of gather_data and of the handler.
Idle ==
    [pc      |-> "idle",
     route   |-> "/api",                        \* the handler serving the request
     now     |-> 0,
     seen    |-> [data |-> None, time |-> 0],   \* the entry line 86 tested
     quote   |-> None,                          \* the quote exchange of this pass
     stock   |-> None,                          \* stock_price
     chain   |-> <<>>,                          \* the chain exchanges of this pass
     results |-> <<>>,
     d       |-> None,                          \* the local d, or the cached dict
     raised  |-> FALSE,                         \* gather_data raised
     resp    |-> None]                          \* the handler's answer

CalcOff == [phase |-> "off", i |-> NPos, r |-> [ok |-> FALSE, rows |-> <<>>],
            stock |-> None, out |-> None]

InitServer ==
    /\ clock = StartTime
    /\ ticks = 0
    /\ requests = 0
    /\ cache = [data |-> None, time |-> 0]
    /\ proc = [p \in Procs |-> Idle]

Init == InitServer /\ calc = CalcOff

\* ----------------------------------------------------------------- actions

Tick(dt) ==
    /\ ticks < MaxTicks
    /\ clock' = clock + dt
    /\ ticks' = ticks + 1
    /\ UNCHANGED <<requests, cache, proc, calc>>

Resting(p) == proc[p].pc \in {"idle", "done"}

\* The two routes that serve the aggregate.
Routes == {"/", "/api"}

\* A request for a route arrives at thread p; its handler calls gather_data,
\* which reads the clock (line 85).
Begin(p, route) ==
    /\ Resting(p)
    /\ requests < MaxRequests
    /\ requests' = requests + 1
    /\ proc' = [proc EXCEPT ![p] = [Idle EXCEPT !.pc = "check", !.route = route,
                                                !.now = clock]]
    /\ UNCHANGED <<clock, ticks, cache, calc>>

\* The same, in a server that handles one request at a time.
BeginAlone(p, route) ==
    /\ \A q \in Procs : Resting(q)
    /\ Begin(p, route)

\* Line 86: the freshness test.
Check(p) ==
    /\ proc[p].pc = "check"
    /\ proc' = [proc EXCEPT ![p].seen = cache,
                            ![p].pc = IF IsFresh(cache, proc[p].now)
                                      THEN "hit" ELSE "quote"]
    /\ UNCHANGED <<clock, ticks, requests, cache, calc>>

\* Line 87: the stored aggregate is returned.
ReturnHit(p) ==
    /\ proc[p].pc = "hit"
    /\ proc' = [proc EXCEPT ![p].d = cache.data, ![p].pc = "respond"]
    /\ UNCHANGED <<clock, ticks, requests, cache, calc>>

\* Line 89: the quote fetch; an exception leaves gather_data.
FetchQuote(p, r) ==
    /\ proc[p].pc = "quote"
    /\ LET q == fetch_stock_price(r)
       IN  proc' = [proc EXCEPT ![p].quote  = Append(@, r),
                                ![p].stock  = q.value,
                                ![p].raised = q.raised,
                                ![p].pc     = IF q.raised THEN "respond" ELSE "loop"]
    /\ UNCHANGED <<clock, ticks, requests, cache, calc>>

\* Lines 92-118: one turn of the loop, for the next position.
FetchOption(p, r) ==
    /\ proc[p].pc = "loop"
    /\ LET i   == Len(proc[p].results) + 1
           pos == POSITIONS[i]
           res == position_result(pos, option_fields(fetch_option(r, pos.strike)),
                                  proc[p].stock, clock)
       IN  /\ r \in ChainResponses(pos)
           /\ proc' = [proc EXCEPT ![p].chain   = Append(@, r),
                                   ![p].results = Append(@, res),
                                   ![p].pc      = IF i = NPos THEN "build" ELSE "loop"]
    /\ UNCHANGED <<clock, ticks, requests, cache, calc>>

\* Lines 120-131: the totals and the dict d, whose timestamp reads the clock.
BuildD(p) ==
    /\ proc[p].pc = "build"
    /\ proc' = [proc EXCEPT ![p].d = Some(aggregate(proc[p].stock, proc[p].results, clock)),
                            ![p].pc = "store"]
    /\ UNCHANGED <<clock, ticks, requests, cache, calc>>

\* Line 133: the store of _cache["data"].
StoreData(p) ==
    /\ proc[p].pc = "store"
    /\ cache' = [cache EXCEPT !.data = proc[p].d]
    /\ proc' = [proc EXCEPT ![p].pc = "time"]
    /\ UNCHANGED <<clock, ticks, requests, calc>>

\* Mutant: line 134 stores the time of the store, not the time of entry.
StoreTimeLate(p) ==
    /\ proc[p].pc = "time"
    /\ cache' = [cache EXCEPT !.time = clock]
    /\ proc' = [proc EXCEPT ![p].pc = "respond"]
    /\ UNCHANGED <<clock, ticks, requests, calc>>

\* Line 134: the store of _cache["time"]; line 135 returns d.
StoreTime(p) ==
    /\ proc[p].pc = "time"
    /\ cache' = [cache EXCEPT !.time = proc[p].now]
    /\ proc' = [proc EXCEPT ![p].pc = "respond"]
    /\ UNCHANGED <<clock, ticks, requests, calc>>

\* An answer: its status, whether it is the error answer (whose body is the
\* text of the exception, not modelled), and its body otherwise.
ErrorAnswer(status) == [status |-> status, error |-> TRUE, body |-> None]

Answer(body) == [status |-> 200, error |-> FALSE, body |-> Some(body)]

\* An optional number as a template shows it behind a truth test: a dash
\* (None) when it is None or zero.
IfTruthy(o) == IF Truthy(o) THEN o ELSE None

\* build_html(d): the page, as the values its template shows (the formatting
\* of the numbers by fmt, fmt2 and pct is left out), or the TypeError of
\* "{sp:.2f}" when stock_price is None.
build_html(d) ==
    IF d.stock_price = None THEN Raise
    ELSE Return(
        [stock_price   |-> d.stock_price[1],
         header_price  |-> IfTruthy(d.stock_price),
         timestamp     |-> d.timestamp,
         total_value   |-> d.total_value,
         total_pnl     |-> d.total_pnl,
         total_pnl_pct |-> d.total_pnl_pct,
         cards         |-> [i \in 1..Len(d.positions) |->
                              LET q == d.positions[i]
                              IN  [label     |-> q.label,
                                   dte       |-> q.dte,
                                   contracts |-> q.contracts,
                                   bid       |-> IfTruthy(q.bid),
                                   ask       |-> IfTruthy(q.ask),
                                   mid       |-> IfTruthy(q.mid),
                                   intrinsic |-> q.intrinsic,
                                   time_val  |-> q.time_val,
                                   value     |-> IfTruthy(q.value),
                                   pnl       |-> q.pnl,
                                   pnl_pct   |-> q.pnl_pct]]])

\* index(): the page with status 200; the error page, also with status 200,
\* when gather_data or build_html raises.  g is the outcome of gather_data.
index(g) ==
    IF g.raised THEN ErrorAnswer(200)
    ELSE LET html == build_html(g.value[1])
         IN  IF html.raised THEN ErrorAnswer(200) ELSE Answer(html.value)

\* api(): the aggregate as JSON; the error with status 500 when gather_data
\* raises.
api(g) ==
    IF g.raised THEN ErrorAnswer(500) ELSE Answer(g.value[1])

\* gather_data has returned or raised (lines 87, 135, or the exception of
\* line 89); the handler of the route answers.
Respond(p) ==
    /\ proc[p].pc = "respond"
    /\ LET g == IF proc[p].raised THEN Raise ELSE Return(proc[p].d)
       IN  proc' = [proc EXCEPT ![p].pc = "done",
                                ![p].resp = Some(IF proc[p].route = "/"
                                                 THEN index(g) ELSE api(g))]
    /\ UNCHANGED <<clock, ticks, requests, cache, calc>>

\* The exchanges a pass may meet.
AnyQuote == QuoteResponses

AnyChain == UNION {ChainResponses(POSITIONS[i]) : i \in 1..NPos}

\* The exchanges of the runs with concurrent threads: the sources answer.
GoodQuote == {r \in QuoteResponses : r.ok /\ r.attr = Some("14.20")}

GoodChain == {r \in AnyChain : r.ok /\ Len(r.rows) > 1}

Step(p, quotes, chains) ==
    \/ Check(p)
    \/ ReturnHit(p)
    \/ \E r \in quotes : FetchQuote(p, r)
    \/ \E r \in chains : FetchOption(p, r)
    \/ BuildD(p)
    \/ StoreData(p)
    \/ StoreTime(p)
    \/ Respond(p)

\* The thread of a server that has one.
Worker == CHOOSE p \in Procs : \A q \in Procs : p <= q

\* One request at a time.
Next ==
    \/ \E dt \in Deltas : Tick(dt)
    \/ \E route \in Routes : BeginAlone(Worker, route)
    \/ Step(Worker, AnyQuote, AnyChain)

Spec == Init /\ [][Next]_vars

\* Requests served by concurrent threads.
NextThreads ==
    \/ \E dt \in Deltas : Tick(dt)
    \/ \E p \in Procs, route \in Routes : Begin(p, route)
    \/ \E p \in Procs : Step(p, GoodQuote, GoodChain)

SpecThreads == Init /\ [][NextThreads]_vars

\* ------------------------------------------------- the calculator on its own

\* What a c_Bid, c_Ask or c_Last of a row may hold.
RawVals ==
    { None, Some("--"), Some(""), Some("N/A"),
      Some("0.00"), Some("0.10"), Some("4.50"), Some("4.70") }

\* Chain exchanges with every combination of the three price fields.
CalcResponses(pos) ==
    { [ok |-> FALSE, rows |-> <<>>], [ok |-> TRUE, rows |-> <<>>] }
    \cup { [ok |-> TRUE, rows |-> <<Row(pos.strike, b, a, l)>>] :
             b \in RawVals, a \in RawVals, l \in RawVals }

InitCalc ==
    /\ InitServer
    /\ \E i \in 1..NPos : \E r \in CalcResponses(POSITIONS[i]), sp \in {None, Some(14200)} :
         calc = [phase |-> "in", i |-> i, r |-> r, stock |-> sp, out |-> None]

\* The loop body applied to the input.
Compute ==
    /\ calc.phase = "in"
    /\ LET pos == POSITIONS[calc.i]
       IN  calc' = [calc EXCEPT
                      !.phase = "out",
                      !.out = Some(position_result(
                                     pos, option_fields(fetch_option(calc.r, pos.strike)),
                                     calc.stock, clock))]
    /\ UNCHANGED <<clock, ticks, requests, cache, proc>>

NextCalc == Compute

SpecCalc == InitCalc /\ [][NextCalc]_vars

\* ------------------------------------------------------------------ claims

Done(p) == proc[p].pc = "done"

\* The entry the request tested on entry was there and younger than the TTL.
FoundFresh(p) ==
    /\ proc[p].seen.data # None
    /\ proc[p].now - proc[p].seen.time < CACHE_TTL

\* The answer of /api that carries the aggregate d (d is <<the dict>>).
Ok(d) == Some([status |-> 200, error |-> FALSE, body |-> d])

\* The error answer of a route: status 500 from /api, the error page with
\* status 200 from /.
Failed(route) ==
    Some([status |-> IF route = "/api" THEN 500 ELSE 200, error |-> TRUE, body |-> None])

\* The chain exchange r gives no row for the position: it raised, or no row
\* has the strike.
NoData(r, pos) == ~r.ok \/ \A k \in 1..Len(r.rows) : r.rows[k].strike # pos.strike

RECURSIVE SumTo(_, _)
\* f[1] + ... + f[n]
SumTo(f, n) == IF n = 0 THEN 0 ELSE f[n] + SumTo(f, n - 1)

\* C1: a request that finds an entry younger than CACHE_TTL is answered with
\* the stored aggregate, every field as stored; it fetches no quote and no
\* option chain, and leaves the cache's data and time as they were.
C1_FreshServedUnchanged ==
    \A p \in Procs :
        (proc[p].pc \in {"hit", "respond", "done"} /\ FoundFresh(p)) =>
            /\ proc[p].quote = <<>>
            /\ proc[p].chain = <<>>
            /\ cache = proc[p].seen
            /\ ~proc[p].raised
            /\ proc[p].pc # "hit" => proc[p].d = proc[p].seen.data
            /\ (Done(p) /\ proc[p].route = "/api") => proc[p].resp = Ok(proc[p].seen.data)

\* A request answered from an entry that is 119 seconds old.
C1_Witness ==
    \E p \in Procs :
        /\ Done(p) /\ FoundFresh(p)
        /\ proc[p].now - proc[p].seen.time = CACHE_TTL - 1
        /\ proc[p].d = cache.data
        /\ proc[p].resp = Ok(cache.data)

\* C2: a request that finds no entry, or an entry of age at least CACHE_TTL,
\* makes one quote fetch and, unless that fails, one chain fetch per position;
\* on success it stores the new aggregate with a time strictly greater than
\* the time of the entry it replaces, namely its own time of entry, so that
\* the entry is fresh for requests entering less than CACHE_TTL later.
C2_StaleRecomputesOnce ==
    \A p \in Procs :
        (Done(p) /\ ~FoundFresh(p)) =>
            /\ Len(proc[p].quote) = 1
            /\ ~proc[p].raised =>
                 /\ Len(proc[p].chain) = NPos
                 /\ Len(proc[p].results) = NPos
                 /\ proc[p].d # None
                 /\ cache.data = proc[p].d
                 /\ cache.time > proc[p].seen.time
                 /\ cache.time = proc[p].now
                 /\ proc[p].route = "/api" => proc[p].resp = Ok(cache.data)

\* A pass that replaced an entry of age exactly CACHE_TTL.
C2_Witness ==
    \E p \in Procs :
        /\ Done(p) /\ ~proc[p].raised
        /\ proc[p].seen.data # None
        /\ proc[p].now - proc[p].seen.time = CACHE_TTL
        /\ cache.data # proc[p].seen.data
        /\ cache.time = proc[p].seen.time + CACHE_TTL

\* C3: when the quote source cannot be reached, the pass fails as a whole: the
\* handler answers with the error, no chain is fetched, and the cache's data
\* and time are what the request found.
C3_QuoteFailureLeavesCache ==
    \A p \in Procs :
        (Done(p) /\ Len(proc[p].quote) = 1 /\ ~proc[p].quote[1].ok) =>
            /\ proc[p].raised
            /\ proc[p].resp = Failed(proc[p].route)
            /\ proc[p].chain = <<>>
            /\ proc[p].d = None
            /\ cache = proc[p].seen

\* A failed pass that left a stale entry in place.
C3_Witness ==
    \E p \in Procs :
        /\ Done(p) /\ Len(proc[p].quote) = 1 /\ ~proc[p].quote[1].ok
        /\ proc[p].seen.data # None
        /\ cache = proc[p].seen
        /\ proc[p].route = "/"
        /\ proc[p].resp = Failed("/")

\* C4: in a pass, a position whose chain fetch raises or gives no row of its
\* strike has bid, ask, last, mid, value and pnl absent and vol and oi "--";
\* every other position has the figures of its own row; the totals are
\* computed and the aggregate is stored.
C4_PositionFailureIsolated ==
    \A p \in Procs :
        (Done(p) /\ Len(proc[p].chain) = NPos) =>
            /\ proc[p].d # None
            /\ cache.data = proc[p].d
            /\ Len(proc[p].d[1].positions) = NPos
            /\ \A i \in 1..NPos :
                 LET r == proc[p].d[1].positions[i]
                 IN  /\ r.label = POSITIONS[i].label
                     /\ IF NoData(proc[p].chain[i], POSITIONS[i])
                        THEN /\ r.bid = None /\ r.ask = None /\ r.last = None
                             /\ r.mid = None /\ r.value = None /\ r.pnl = None
                             /\ r.vol = Some("--") /\ r.oi = Some("--")
                        ELSE /\ r.bid = Some(4500) /\ r.ask = Some(4700)
                             /\ r.last = Some(4500) /\ r.mid = Some(4600)
                             /\ r.value = Some(POSITIONS[i].contracts * 460000)
                             /\ r.vol = Some("12") /\ r.oi = Some("345")
            /\ proc[p].d[1].total_value =
                 SumTo([i \in 1..NPos |->
                          IF NoData(proc[p].chain[i], POSITIONS[i]) THEN 0
                          ELSE POSITIONS[i].contracts * 460000], NPos)

\* A pass whose first position has its row, whose second met a transport
\* error and whose third met a chain without its strike.
C4_Witness ==
    \E p \in Procs :
        /\ Done(p) /\ Len(proc[p].chain) = NPos
        /\ ~NoData(proc[p].chain[1], POSITIONS[1])
        /\ ~proc[p].chain[2].ok
        /\ proc[p].chain[3].ok /\ NoData(proc[p].chain[3], POSITIONS[3])
        /\ cache.data = proc[p].d

\* The outcome of the calculator on its own.
Out == calc.out[1]

\* C5: if bid and ask are both present (zero included), mid = (bid+ask)/2; if
\* exactly one of bid, ask, last is present, mid is that value; if all three
\* are absent, mid is absent.
C5_MidFallback ==
    calc.phase = "out" =>
        LET b == Out.bid
            a == Out.ask
            l == Out.last
        IN  /\ (b # None /\ a # None) => Out.mid = Some((b[1] + a[1]) \div 2)
            /\ (b # None /\ a = None /\ l = None) => Out.mid = b
            /\ (b = None /\ a # None /\ l = None) => Out.mid = a
            /\ (b = None /\ a = None /\ l # None) => Out.mid = l
            /\ (b = None /\ a = None /\ l = None) => Out.mid = None

\* C6: value is absent iff mid is absent, pnl is absent iff value is absent,
\* pnl_pct is absent iff pnl is absent, a present price being possibly zero.
C6_AbsencePropagates ==
    calc.phase = "out" =>
        /\ (Out.value = None) <=> (Out.mid = None)
        /\ (Out.pnl = None) <=> (Out.value = None)
        /\ (Out.pnl_pct = None) <=> (Out.pnl = None)

\* C7: total_value is the sum of the values that are present, an absent value
\* counting for nothing, and total_pnl is total_value less TOTAL_COST_BASIS.
C7_TotalsSumPresent ==
    \A p \in Procs :
        (Done(p) /\ proc[p].d # None) =>
            LET d == proc[p].d[1]
                worth == [i \in 1..Len(d.positions) |->
                            IF d.positions[i].value = None THEN 0
                            ELSE d.positions[i].value[1]]
            IN  /\ Len(d.positions) = NPos
                /\ d.total_value = SumTo(worth, NPos)
                /\ d.total_pnl = d.total_value - TOTAL_COST_BASIS * 1000
                /\ d.total_pnl_pct = <<d.total_pnl, TOTAL_COST_BASIS * 1000>>

\* An aggregate whose first position alone has no value.
C7_Witness ==
    \E p \in Procs :
        /\ Done(p) /\ proc[p].d # None
        /\ proc[p].d[1].positions[1].value = None
        /\ proc[p].d[1].positions[2].value # None
        /\ proc[p].d[1].positions[3].value # None
        /\ proc[p].d[1].total_value = (105 + 134) * 460000

\* C8 as stated: the dte a request is answered with is counted from the local
\* date of that request, also when the answer comes from the cache.
C8_DteAtCallTime ==
    \A p \in Procs :
        (Done(p) /\ FoundFresh(p) /\ proc[p].d # None) =>
            \A i \in 1..NPos :
                proc[p].d[1].positions[i].dte =
                    strptime_date(POSITIONS[i].expiry) - proc[p].now \div SecondsPerDay

\* C8 as amended: the dte of a position is counted from the local date at
\* which the recomputation pass handled that position, a date between the
\* pass's time of entry and its generation timestamp, and is stored; a request
\* answered from the cache gets the stored dte, whatever the date of the call.
C8_DteAtPassTime ==
    \A p \in Procs :
        (Done(p) /\ proc[p].d # None) =>
            /\ FoundFresh(p) => proc[p].d = proc[p].seen.data
            /\ \A i \in 1..NPos :
                 LET day == strptime_date(POSITIONS[i].expiry)
                              - proc[p].d[1].positions[i].dte
                 IN  /\ cache.time \div SecondsPerDay <= day
                     /\ day <= proc[p].d[1].timestamp[1]

\* A request answered from the cache on the day after the pass that filled it.
C8_Witness ==
    \E p \in Procs :
        /\ Done(p) /\ FoundFresh(p) /\ proc[p].d # None
        /\ proc[p].now \div SecondsPerDay = proc[p].d[1].timestamp[1] + 1
        /\ \A i \in 1..NPos :
             proc[p].d[1].positions[i].dte =
                 strptime_date(POSITIONS[i].expiry) - proc[p].d[1].timestamp[1]

\* C9: when the quote page has no price, or a price that is not a number, the
\* pass goes on without the underlying price: intrinsic and time value are
\* absent and the new aggregate is stored.
C9_NoPriceIsAValue ==
    \A p \in Procs :
        (/\ Done(p) /\ Len(proc[p].quote) = 1 /\ proc[p].quote[1].ok
         /\ \/ proc[p].quote[1].attr = None
            \/ proc[p].quote[1].attr = Some("N/A")) =>
            /\ ~proc[p].raised
            /\ proc[p].d # None
            /\ proc[p].d[1].stock_price = None
            /\ \A i \in 1..NPos :
                 /\ proc[p].d[1].positions[i].intrinsic = None
                 /\ proc[p].d[1].positions[i].time_val = None
            /\ cache.data = proc[p].d

\* Both threads have finished a request that found the cache empty or stale
\* and recomputed.
BothRecomputed ==
    \A p \in Procs : Done(p) /\ ~FoundFresh(p) /\ proc[p].d # None

\* C10 as stated: once both have finished, the stored aggregate and the stored
\* time are those of one and the same pass.
C10_EntryFromOnePass ==
    BothRecomputed =>
        \E p \in Procs : cache.data = proc[p].d /\ cache.time = proc[p].now

\* C10 as amended: each thread makes its own full pass and stores its
\* aggregate and its time of entry; once both have finished, the stored
\* aggregate is the aggregate of one of the two passes and the stored time is
\* the time of entry of one of the two passes, each the one stored last, and
\* the two may belong to different passes.
C10_EachFieldFromSomePass ==
    BothRecomputed =>
        /\ \A p \in Procs : Len(proc[p].quote) = 1 /\ Len(proc[p].chain) = NPos
        /\ \E p \in Procs : cache.data = proc[p].d
        /\ \E q \in Procs : cache.time = proc[q].now

\* An entry that pairs the aggregate of one pass with the time of the other.
C10_Witness ==
    /\ BothRecomputed
    /\ \E p \in Procs, q \in Procs :
         /\ p # q
         /\ cache.data = proc[p].d /\ cache.time = proc[q].now
         /\ proc[p].d # proc[q].d
         /\ proc[p].now # proc[q].now

====
